---- MODULE Spec2Model ----
(***************************************************************************)
(* Model of monk_tf/fixture.py: class Fixture.                             *)
(*                                                                         *)
(* State: props (the merged configuration tree), devs (the list of        *)
(* top-level objects), _devs_dict (the name cache of get_dev).  props is  *)
(* a dict: props_dict is the order in which its hash table holds the      *)
(* top-level keys, the order viewkeys() yields them in.  The               *)
(* objects that the registered classes construct live in `heap`; the      *)
(* number of close_all() calls each one received is in `closeCalls`.      *)
(* `lastOp` records the inputs, the calls made on the objects and the     *)
(* outcome of the last operation executed on the fixture.  `scope` tells   *)
(* whether a with statement on the fixture has been entered or left.      *)
(* `ctor` is the position of the constructor (running its search for       *)
(* fixture files, returned, or left by an exception) and `pending` the     *)
(* fixture files it has still to read.                                      *)
(***************************************************************************)
EXTENDS Integers, Sequences, FiniteSets, TLC

VARIABLES props, props_dict, devs, devs_dict, heap, closeCalls, lastOp, scope,
          ctor, pending

vars == <<props, props_dict, devs, devs_dict, heap, closeCalls, lastOp, scope,
          ctor, pending>>

(***************************************************************************)
(* Bounds of the exploration.                                              *)
(***************************************************************************)
\* reads are accepted while fewer than MaxHeap objects have been constructed
MaxHeap == 3
\* tear_down is accepted while no object received more than MaxClose calls
MaxClose == 2
\* the search of the constructor finds at most MaxFiles fixture files
MaxFiles == 1

(***************************************************************************)
(* Configuration values.  A ConfigObj section is an ordered mapping; a    *)
(* value of a key is a scalar string, a nested section, or (after         *)
(* _parse_section stored its results in the section) a list of objects    *)
(* or a single object.  Objects are referred to by their index in heap.   *)
(***************************************************************************)
Scalar(s) == [kind |-> "scalar", str |-> s, sec |-> <<>>, ids |-> <<>>]

SectionOf(entries) == [kind |-> "section", str |-> "", sec |-> entries, ids |-> <<>>]

ObjList(hs) == [kind |-> "list", str |-> "", sec |-> <<>>, ids |-> hs]

Obj(h) == [kind |-> "obj", str |-> "", sec |-> <<>>, ids |-> <<h>>]

KV(k, v) == [key |-> k, val |-> v]

\* index of key k in the entries of a section, 0 when absent
IndexOf(entries, k) ==
    IF \E i \in 1..Len(entries) : entries[i].key = k
    THEN CHOOSE i \in 1..Len(entries) : entries[i].key = k
    ELSE 0

\* k in section
Has(entries, k) == IndexOf(entries, k) # 0

\* section[k]
Get(entries, k) == entries[IndexOf(entries, k)].val

\* section.pop(k): the section without key k
Pop(entries, k) ==
    LET i == IndexOf(entries, k)
    IN  IF i = 0 THEN entries
        ELSE SubSeq(entries, 1, i - 1) \o SubSeq(entries, i + 1, Len(entries))

\* section[k] = v: an existing key keeps its place, a new key goes last
Set(entries, k, v) ==
    LET i == IndexOf(entries, k)
    IN  IF i = 0 THEN Append(entries, KV(k, v))
        ELSE [entries EXCEPT ![i] = KV(k, v)]

(***************************************************************************)
(* props.merge(ConfigObj(source)): for every key of the new tree, two     *)
(* sections are merged key by key, anything else is replaced by the new   *)
(* value.                                                                  *)
(***************************************************************************)
RECURSIVE Merge(_, _)
Merge(entries, new) ==
    IF new = <<>> THEN entries
    ELSE LET k == Head(new).key
             v == Head(new).val
             merged ==
                 IF Has(entries, k) /\ Get(entries, k).kind = "section"
                                    /\ v.kind = "section"
                 THEN Set(entries, k, SectionOf(Merge(Get(entries, k).sec, v.sec)))
                 ELSE Set(entries, k, v)
         IN  Merge(merged, Tail(new))

(***************************************************************************)
(* Fixture._DEFAULT_CLASSES: the type tags a section may name.            *)
(***************************************************************************)
classes == {"Device", "HydraDevice", "SerialConnection", "SshConnection"}

\* the object sectype(**section) returns: its name, its class and the
\* keyword arguments it was constructed with
NewObject(name, type, entries) == [name |-> name, type |-> type, attrs |-> entries]

NewEvent(h) == [ev |-> "new", h |-> h]

DeprecatedEvent == [ev |-> "deprecated", h |-> 0]

(***************************************************************************)
(* _parse_section(name, section).  The section is modified in place, so   *)
(* the result carries the section as the call leaves it (also when the    *)
(* call raises), the heap with the objects constructed so far, the        *)
(* constructed object h and the events (constructions, deprecation        *)
(* notices) in the order they happen.                                     *)
(***************************************************************************)
Raised(st, exc) == [st EXCEPT !.ok = FALSE, !.exc = exc]

\* sectype = self.classes[section.pop("type")]
PopType(st) ==
    IF ~Has(st.sec, "type") THEN Raised(st, "KeyError")
    ELSE LET t == Get(st.sec, "type")
             popped == [st EXCEPT !.sec = Pop(st.sec, "type")]
         IN  IF t.kind # "scalar" THEN Raised(popped, "TypeError")
             ELSE IF t.str \notin classes THEN Raised(popped, "KeyError")
             ELSE [popped EXCEPT !.type = t.str]

RECURSIVE ParseSection(_, _, _)
RECURSIVE ParseChildren(_, _, _)

\* [self._parse_section(s, cs[s]) for s in cs] over the children of a section
ParseChildren(children, i, st) ==
    IF ~st.ok \/ i > Len(children) THEN st
    ELSE LET r == ParseSection(children[i].key, children[i].val, st.heap)
             step == [st EXCEPT !.heap = r.heap,
                                !.events = st.events \o r.events,
                                !.ids = IF r.ok THEN Append(st.ids, r.h) ELSE st.ids]
         IN  ParseChildren(children, i + 1,
                           IF r.ok THEN step ELSE Raised(step, r.exc))

\* if "conns" in section: cs = section.pop("conns"); section["conns"] = [...]
ParseConns(st) ==
    IF ~st.ok \/ ~Has(st.sec, "conns") THEN st
    ELSE LET cs == Get(st.sec, "conns")
             popped == [st EXCEPT !.sec = Pop(st.sec, "conns"), !.ids = <<>>]
         IN  CASE cs.kind = "section" ->
                    LET r == ParseChildren(cs.sec, 1, popped)
                    IN  IF r.ok
                        THEN [r EXCEPT !.sec = Set(r.sec, "conns", ObjList(r.ids))]
                        ELSE r
               [] cs.kind = "scalar" ->
                    \* iterates the characters; cs[s] raises for the first one
                    IF cs.str = ""
                    THEN [popped EXCEPT !.sec = Set(popped.sec, "conns", ObjList(<<>>))]
                    ELSE Raised(popped, "TypeError")
               [] cs.kind = "list" ->
                    \* iterates the objects; cs[s] raises for the first one
                    IF cs.ids = <<>>
                    THEN [popped EXCEPT !.sec = Set(popped.sec, "conns", ObjList(<<>>))]
                    ELSE Raised(popped, "TypeError")
               [] OTHER -> Raised(popped, "TypeError")

\* the sub-section under key k becomes the object stored under "bcc"
ParseBackup(st, k, events) ==
    LET bs == Get(st.sec, k)
        popped == [st EXCEPT !.sec = Pop(st.sec, k), !.events = st.events \o events]
        r == ParseSection(k, bs, popped.heap)
        step == [popped EXCEPT !.heap = r.heap, !.events = popped.events \o r.events]
    IN  IF r.ok
        THEN [step EXCEPT !.sec = Set(step.sec, "bcc", Obj(r.h))]
        ELSE Raised(step, r.exc)

\* if "bcc" in section: log DEPRECATED; section["bcc"] = parse("bcc", pop("bcc"))
ParseBcc(st) ==
    IF ~st.ok \/ ~Has(st.sec, "bcc") THEN st
    ELSE ParseBackup(st, "bcc", <<DeprecatedEvent>>)

\* ParseBctrl storing the object under "bctrl", the key it was read from
ParseBctrlOwnKey(st) ==
    IF ~st.ok \/ ~Has(st.sec, "bctrl") THEN st
    ELSE LET r == ParseBackup([st EXCEPT !.sec = Pop(st.sec, "bcc")], "bctrl", <<>>)
         IN  IF ~r.ok THEN r
             ELSE LET kept == IF Has(st.sec, "bcc")
                              THEN Set(Pop(r.sec, "bcc"), "bcc", Get(st.sec, "bcc"))
                              ELSE Pop(r.sec, "bcc")
                  IN  [r EXCEPT !.sec = Set(kept, "bctrl", Get(r.sec, "bcc"))]

\* if "bctrl" in section: section["bcc"] = parse("bctrl", pop("bctrl"))
ParseBctrl(st) ==
    IF ~st.ok \/ ~Has(st.sec, "bctrl") THEN st
    ELSE ParseBackup(st, "bctrl", <<>>)

\* section["name"] = name; return sectype(**section)
Construct(st, name) ==
    IF ~st.ok THEN st
    ELSE LET named == Set(st.sec, "name", Scalar(name))
             h == Len(st.heap) + 1
         IN  [st EXCEPT !.sec = named,
                        !.heap = Append(st.heap, NewObject(name, st.type, named)),
                        !.events = Append(st.events, NewEvent(h)),
                        !.h = h]

ParseSection(name, section, hp) ==
    LET start == [ok |-> TRUE, exc |-> "", sec |-> section.sec, type |-> "",
                  heap |-> hp, events |-> <<>>, ids |-> <<>>, h |-> 0]
    IN  IF section.kind # "section"
        THEN \* list(section.keys()) of a string, a list or an object
             Raised(start, "AttributeError")
        ELSE Construct(ParseBctrl(ParseBcc(ParseConns(PopType(start)))), name)

(***************************************************************************)
(* self.props.viewkeys(): props is a dict, whose keys come in the order   *)
(* of their slots in the hash table.  The slot of a key follows from the  *)
(* hash of the string, which differs from one interpreter run to the      *)
(* next under hash randomisation, and from the keys already in the table: *)
(* any order of the keys is possible.  A key that is in the table stays   *)
(* in its slot (no top-level key is ever removed, and a table of 8 slots  *)
(* is not resized before its sixth key), so the keys of `order`, the      *)
(* order the table had before, keep their relative order.                 *)
(***************************************************************************)
viewkeys(order, entries) ==
    LET ks == {entries[i].key : i \in 1..Len(entries)}
        n == Cardinality(ks)
        pos(o, k) == CHOOSE i \in 1..n : o[i] = k
    IN  {o \in [1..n -> ks] :
            /\ \A k \in ks : \E i \in 1..n : o[i] = k
            /\ \A i, j \in 1..Len(order) :
                  i < j => pos(o, order[i]) < pos(o, order[j])}

(***************************************************************************)
(* _initialize(): one _parse_section per top-level key, in the order      *)
(* viewkeys() gave; the sections of                                       *)
(* props are modified in place, devs is assigned only if every section    *)
(* was parsed.                                                            *)
(***************************************************************************)
RECURSIVE ParseTop(_, _, _)
ParseTop(order, i, st) ==
    IF ~st.ok \/ i > Len(order) THEN st
    ELSE LET d == order[i]
             r == ParseSection(d, Get(st.props, d), st.heap)
             inplace == IF Get(st.props, d).kind = "section"
                        THEN Set(st.props, d, SectionOf(r.sec))
                        ELSE st.props
             step == [st EXCEPT !.props = inplace,
                                !.heap = r.heap,
                                !.events = st.events \o r.events,
                                !.ids = IF r.ok THEN Append(st.ids, r.h) ELSE st.ids]
         IN  ParseTop(order, i + 1, IF r.ok THEN step ELSE Raised(step, r.exc))

\* _initialize building the objects without assigning them to self.devs
initialize_unassigned(entries, order, hp) ==
    LET start == [ok |-> TRUE, exc |-> "", props |-> entries, heap |-> hp,
                  events |-> <<>>, ids |-> <<>>]
    IN  IF entries # <<>>
        THEN [ParseTop(order, 1, start) EXCEPT !.ids = <<>>]
        ELSE Raised(start, "NoPropsException")

initialize(entries, order, hp) ==
    LET start == [ok |-> TRUE, exc |-> "", props |-> entries, heap |-> hp,
                  events |-> <<>>, ids |-> <<>>]
    IN  IF entries # <<>>
        THEN ParseTop(order, 1, start)
        ELSE Raised(start, "NoPropsException")

(***************************************************************************)
(* The objects are collaborators: a call of cmd, close_all or             *)
(* reset_config on one of them returns or raises, as the caller of the    *)
(* model chooses.                                                         *)
(***************************************************************************)
CallOutcomes == {"ok", "fail"}

\* cmd may also raise an IndexError of its own
CmdOutcomes == {"ok", "fail", "IndexError"}

\* the number of calls a loop over devs makes when it stops at the first
\* call that raises
CallsUntilRaise(outs) ==
    IF \E i \in 1..Len(outs) : outs[i] # "ok"
    THEN CHOOSE i \in 1..Len(outs) :
            outs[i] # "ok" /\ \A j \in 1..(i - 1) : outs[j] = "ok"
    ELSE Len(outs)

AllOk(outs) == \A i \in 1..Len(outs) : outs[i] = "ok"

(***************************************************************************)
(* tear_down(): for device in self.devs: device.close_all(); devs = [].   *)
(* A close_all that raises ends the loop and the method.                  *)
(***************************************************************************)
CloseEvent(h, out) == [ev |-> IF out = "ok" THEN "close" ELSE "close_raised", h |-> h]

tear_down(ds, outs, calls) ==
    LET n == CallsUntilRaise(outs)
        called == {ds[i] : i \in 1..n}
    IN  [ok |-> AllOk(outs),
         exc |-> IF AllOk(outs) THEN "" ELSE "HandleCloseError",
         devs |-> IF AllOk(outs) THEN <<>> ELSE ds,
         closeCalls |-> [h \in 1..Len(calls) |->
                            IF h \in called THEN calls[h] + 1 ELSE calls[h]],
         events |-> [i \in 1..n |-> CloseEvent(ds[i], outs[i])]]

(***************************************************************************)
(* Configuration sources given to read().                                 *)
(***************************************************************************)
SrcEmpty == <<>>

SrcPlain ==
    << KV("dev1", SectionOf(<< KV("type", Scalar("Device")) >>)),
       KV("dev2", SectionOf(<< KV("type", Scalar("HydraDevice")) >>)) >>

SrcBackup ==
    << KV("dev2", SectionOf(<<
          KV("type", Scalar("Device")),
          KV("conns", SectionOf(<<
              KV("serial1", SectionOf(<<
                  KV("type", Scalar("SerialConnection")),
                  KV("port", Scalar("/dev/ttyUSB1")) >>)) >>)),
          KV("bcc", SectionOf(<< KV("type", Scalar("SshConnection")) >>)),
          KV("bctrl", SectionOf(<< KV("type", Scalar("SerialConnection")) >>)) >>)) >>

SrcBad ==
    << KV("dev1", SectionOf(<< KV("type", Scalar("Bogus")) >>)),
       KV("dev2", SectionOf(<<
          KV("type", Scalar("Device")),
          KV("bctrl", SectionOf(<< KV("type", Scalar("SshConnection")) >>)) >>)) >>

Sources == {SrcEmpty, SrcPlain, SrcBackup, SrcBad}

\* names asked of get_dev
Names == {"dev1", "dev4"}

\* indices asked of get_dev
Indices == 0..1

\* the arguments of a command: the defaults of the signature and other values
CallArgs ==
    { [msg |-> "ls", expect |-> "None", timeout |-> "30", login_timeout |-> "None"],
      [msg |-> "ls", expect |-> "$", timeout |-> "5", login_timeout |-> "7"] }

NoArgs == [msg |-> "", expect |-> "", timeout |-> "", login_timeout |-> ""]

NoWhich == [kind |-> "none", idx |-> 0, name |-> ""]

(***************************************************************************)
(* The record of an operation.                                            *)
(***************************************************************************)
Op(op, src, which, args, outs, prevDevs, events, cmds, outcome, exc, retKind, ret, payload) ==
    [op |-> op, src |-> src, which |-> which, args |-> args, outs |-> outs,
     prevDevs |-> prevDevs, events |-> events, cmds |-> cmds,
     outcome |-> outcome, exc |-> exc, retKind |-> retKind, ret |-> ret,
     payload |-> payload]

(***************************************************************************)
(* read(source) on the fixture st: tear_down(); props.merge(              *)
(* ConfigObj(source)); _initialize(); return self.  outs are the outcomes *)
(* of the close_all calls, order is what viewkeys() yields.               *)
(***************************************************************************)
MergeEvent == [ev |-> "merge", h |-> 0]

\* what read leaves when tear_down gave td and _initialize, if reached, ini
ReadResult(st, td, ini, order) ==
    IF ~td.ok
    THEN [ok |-> FALSE, exc |-> td.exc,
          props |-> st.props, props_dict |-> st.props_dict,
          devs |-> td.devs, heap |-> st.heap, closeCalls |-> td.closeCalls,
          events |-> td.events]
    ELSE [ok |-> ini.ok, exc |-> ini.exc,
          props |-> ini.props, props_dict |-> order,
          devs |-> IF ini.ok THEN ini.ids ELSE td.devs,
          heap |-> ini.heap,
          closeCalls |-> td.closeCalls
                            \o [i \in 1..(Len(ini.heap) - Len(st.heap)) |-> 0],
          events |-> td.events \o <<MergeEvent>> \o ini.events]

read(st, src, outs, order) ==
    ReadResult(st, tear_down(st.devs, outs, st.closeCalls),
               initialize(Merge(st.props, src), order, st.heap), order)

(***************************************************************************)
(* __init__(): devs = [], _devs_dict = {}, props = ConfigObj(); then,     *)
(* with auto_search, self.read() of the fixture file of the home          *)
(* directory, if there is one, and of the fixture file of every parent    *)
(* directory of call_location that has one, from the root down.  When the *)
(* home directory is one of these parent directories its file is read     *)
(* twice.  Init is the constructor after line 212, with the files its     *)
(* search will find; InitRead is one of its calls of read.                *)
(***************************************************************************)
\* the fixture files of the parent directories of call_location, root first
ParentFiles == UNION {[1..n -> Sources] : n \in 0..MaxFiles}

\* the sources the constructor reads, in the order it reads them
FixtureFiles ==
    \* no file in the home directory
    ParentFiles
    \* a file in the home directory, which is no parent of call_location
    \cup {<<h>> \o d : h \in Sources, d \in {x \in ParentFiles : Len(x) < MaxFiles}}
    \* the home directory is the i-th of the parent directories with a file
    \cup UNION {{<<d[i]>> \o d : i \in 1..Len(d)} : d \in ParentFiles}

Init ==
    /\ props = <<>>
    /\ props_dict = <<>>
    /\ devs = <<>>
    /\ devs_dict = <<>>
    /\ heap = <<>>
    /\ closeCalls = <<>>
    /\ scope = "out"
    /\ pending \in FixtureFiles
    /\ ctor = IF pending = <<>> THEN "returned" ELSE "running"
    /\ lastOp = Op("__init__", <<>>, NoWhich, NoArgs, <<>>, <<>>, <<>>, <<>>,
                   "return", "", "None", <<>>, <<>>)

\* the methods of the fixture are called once the constructor has returned it
Returned == ctor = "returned"

\* a loop over devs may be entered while no object exceeds the bound on calls
CloseBound == \A i \in 1..Len(devs) : closeCalls[devs[i]] < MaxClose

CloseOuts == [1..Len(devs) -> CallOutcomes]

(***************************************************************************)
(* tear_down() and __exit__(), which only calls tear_down().              *)
(***************************************************************************)
TearDownAs(op, arg) ==
    /\ Returned
    /\ CloseBound
    /\ \E outs \in CloseOuts :
         LET td == tear_down(devs, outs, closeCalls)
         IN  /\ devs' = td.devs
             /\ closeCalls' = td.closeCalls
             /\ lastOp' = Op(op, <<>>, arg, NoArgs, outs, devs, td.events, <<>>,
                             IF td.ok THEN "return" ELSE "raise", td.exc,
                             "None", <<>>, <<>>)
    /\ UNCHANGED <<props, props_dict, devs_dict, heap, ctor, pending>>

TearDown ==
    /\ TearDownAs("tear_down", NoWhich)
    /\ UNCHANGED scope

\* __exit__(exception_type, exception_val, trace): the with block ended
\* normally (exception_type is None) or by an exception
ExitArgs ==
    {[kind |-> "exception_type", idx |-> 0, name |-> n] : n \in {"None", "Exception"}}

Exit ==
    /\ scope = "in"
    /\ \E arg \in ExitArgs : TearDownAs("__exit__", arg)
    /\ scope' = "left"

(***************************************************************************)
(* A call of read(source): by the user of the fixture (Read), or by the   *)
(* constructor for the next file of its search (InitRead).  An exception  *)
(* of the latter leaves the constructor: no fixture comes into being.     *)
(***************************************************************************)
ReadCall(src) ==
    \E outs \in CloseOuts :
        \E order \in viewkeys(props_dict, Merge(props, src)) :
            \E r \in {read([props |-> props, props_dict |-> props_dict, devs |-> devs,
                            heap |-> heap, closeCalls |-> closeCalls],
                           src, outs, order)} :
                /\ props' = r.props
                /\ props_dict' = r.props_dict
                /\ devs' = r.devs
                /\ heap' = r.heap
                /\ closeCalls' = r.closeCalls
                /\ lastOp' = Op("read", src, NoWhich, NoArgs, outs, devs, r.events, <<>>,
                                IF r.ok THEN "return" ELSE "raise", r.exc,
                                IF r.ok THEN "self" ELSE "None", <<>>, <<>>)

Read ==
    /\ Returned
    /\ Len(heap) < MaxHeap
    /\ CloseBound
    /\ \E src \in Sources : ReadCall(src)
    /\ UNCHANGED <<devs_dict, scope, ctor, pending>>

InitRead ==
    /\ ctor = "running"
    /\ ReadCall(Head(pending))
    /\ pending' = IF lastOp'.outcome = "return" THEN Tail(pending) ELSE <<>>
    /\ ctor' = CASE lastOp'.outcome = "raise" -> "raised"
                 [] Tail(pending) = <<>> -> "returned"
                 [] OTHER -> "running"
    /\ UNCHANGED <<devs_dict, scope>>

(***************************************************************************)
(* Calls of cmd.  A parameter that is passed carries its value as a       *)
(* one-element sequence, a parameter that is left to the object's own     *)
(* default is the empty sequence.                                         *)
(***************************************************************************)
CmdCall(h, msg, expect, timeout, login_timeout) ==
    [h |-> h, msg |-> msg, expect |-> expect, timeout |-> timeout,
     login_timeout |-> login_timeout]

\* dev.cmd(msg)
CmdMsgOnly(h, a) == CmdCall(h, <<a.msg>>, <<>>, <<>>, <<>>)

\* dev.cmd(msg=msg, expect=expect, timeout=timeout, login_timeout=login_timeout)
CmdKeywords(h, a) ==
    CmdCall(h, <<a.msg>>, <<a.expect>>, <<a.timeout>>, <<a.login_timeout>>)

\* the exception a call of cmd raises
CmdExc(out) == IF out = "IndexError" THEN "IndexError" ELSE "HandleCmdError"

CmdOuts == [1..Len(devs) -> CallOutcomes]

\* cmd_first calls no device but the first
FirstOuts == [1..(IF devs = <<>> THEN 0 ELSE 1) -> CmdOutcomes]

\* cmd_first sending to self.devs[-1]
cmd_first_last(ds, a, outs) ==
    IF ds = <<>>
    THEN [cmds |-> <<>>, outcome |-> "raise", exc |-> "NoDeviceException",
          retKind |-> "None", ret |-> <<>>]
    ELSE LET h == ds[Len(ds)]
         IN  IF outs[1] = "ok"
             THEN [cmds |-> <<CmdMsgOnly(h, a)>>, outcome |-> "return", exc |-> "",
                   retKind |-> "result", ret |-> <<h>>]
             ELSE [cmds |-> <<CmdMsgOnly(h, a)>>, outcome |-> "raise",
                   exc |-> IF outs[1] = "IndexError" THEN "NoDeviceException"
                           ELSE CmdExc(outs[1]),
                   retKind |-> "None", ret |-> <<>>]

(***************************************************************************)
(* cmd_first(): try: return self.devs[0].cmd(msg)                         *)
(*              except IndexError: raise NoDeviceException                *)
(***************************************************************************)
cmd_first(ds, a, outs) ==
    IF ds = <<>>
    THEN [cmds |-> <<>>, outcome |-> "raise", exc |-> "NoDeviceException",
          retKind |-> "None", ret |-> <<>>]
    ELSE LET call == <<CmdMsgOnly(ds[1], a)>>
         IN  CASE outs[1] = "ok" ->
                    [cmds |-> call, outcome |-> "return", exc |-> "",
                     retKind |-> "result", ret |-> <<ds[1]>>]
               [] outs[1] = "IndexError" ->
                    [cmds |-> call, outcome |-> "raise", exc |-> "NoDeviceException",
                     retKind |-> "None", ret |-> <<>>]
               [] OTHER ->
                    [cmds |-> call, outcome |-> "raise", exc |-> CmdExc(outs[1]),
                     retKind |-> "None", ret |-> <<>>]

(***************************************************************************)
(* cmd_any(): the raise of CantHandleException is a statement of the loop *)
(* body, after the try statement: the first pass through the loop either  *)
(* returns or raises.  Without devices the loop body never runs and the   *)
(* method returns None.                                                   *)
(***************************************************************************)
cmd_any(ds, a, outs) ==
    IF ds = <<>>
    THEN [cmds |-> <<>>, outcome |-> "return", exc |-> "",
          retKind |-> "None", ret |-> <<>>]
    ELSE LET call == <<CmdKeywords(ds[1], a)>>
         IN  IF outs[1] = "ok"
             THEN [cmds |-> call, outcome |-> "return", exc |-> "",
                   retKind |-> "result", ret |-> <<ds[1]>>]
             ELSE [cmds |-> call, outcome |-> "raise", exc |-> "CantHandleException",
                   retKind |-> "None", ret |-> <<>>]

(***************************************************************************)
(* cmd_all(): the loop body returns the result of dev.cmd(...), so the    *)
(* first pass through the loop returns or lets the exception through.     *)
(***************************************************************************)
cmd_all(ds, a, outs) ==
    IF ds = <<>>
    THEN [cmds |-> <<>>, outcome |-> "return", exc |-> "",
          retKind |-> "None", ret |-> <<>>]
    ELSE LET call == <<CmdKeywords(ds[1], a)>>
         IN  IF outs[1] = "ok"
             THEN [cmds |-> call, outcome |-> "return", exc |-> "",
                   retKind |-> "result", ret |-> <<ds[1]>>]
             ELSE [cmds |-> call, outcome |-> "raise", exc |-> CmdExc(outs[1]),
                   retKind |-> "None", ret |-> <<>>]

Command(op, r, a, outs) ==
    /\ Returned
    /\ lastOp' = Op(op, <<>>, NoWhich, a, outs, devs, <<>>, r.cmds,
                    r.outcome, r.exc, r.retKind, r.ret, <<>>)
    /\ UNCHANGED <<props, props_dict, devs, devs_dict, heap, closeCalls, scope,
                   ctor, pending>>

CmdFirst ==
    \E a \in CallArgs, outs \in FirstOuts :
        Command("cmd_first", cmd_first(devs, a, outs), a, outs)

CmdAny ==
    \E a \in CallArgs, outs \in CmdOuts :
        Command("cmd_any", cmd_any(devs, a, outs), a, outs)

CmdAll ==
    \E a \in CallArgs, outs \in CmdOuts :
        Command("cmd_all", cmd_all(devs, a, outs), a, outs)

(***************************************************************************)
(* get_dev(which): an index selects from devs; a name is looked up in     *)
(* _devs_dict and, when it is not there, searched in devs and remembered. *)
(***************************************************************************)
InCache(cache, name) == \E i \in 1..Len(cache) : cache[i].name = name

Cached(cache, name) == (CHOOSE i \in 1..Len(cache) : cache[i].name = name)

\* the position in devs of the first device of that name, 0 if there is none
Scan(ds, hp, name) ==
    IF \E i \in 1..Len(ds) : hp[ds[i]].name = name
    THEN CHOOSE i \in 1..Len(ds) :
            hp[ds[i]].name = name /\ \A j \in 1..(i - 1) : hp[ds[j]].name # name
    ELSE 0

get_dev(ds, cache, hp, which) ==
    LET found(h, c) == [outcome |-> "return", exc |-> "", ret |-> <<h>>,
                        payload |-> <<>>, cache |-> c]
        failed(exc, names) == [outcome |-> "raise", exc |-> exc, ret |-> <<>>,
                               payload |-> names, cache |-> cache]
    IN  IF which.kind = "index"
        THEN IF which.idx < Len(ds)
             THEN found(ds[which.idx + 1], cache)
             ELSE failed("IndexError", <<>>)
        ELSE IF InCache(cache, which.name)
        THEN found(cache[Cached(cache, which.name)].h, cache)
        ELSE LET i == Scan(ds, hp, which.name)
             IN  IF i # 0
                 THEN found(ds[i], Append(cache, [name |-> which.name, h |-> ds[i]]))
                 ELSE failed("WrongNameException",
                             [j \in 1..Len(ds) |-> hp[ds[j]].name])

Whiches ==
    {[kind |-> "index", idx |-> i, name |-> ""] : i \in Indices}
        \cup {[kind |-> "name", idx |-> 0, name |-> n] : n \in Names}

GetDev ==
    /\ Returned
    /\ \E which \in Whiches :
         LET r == get_dev(devs, devs_dict, heap, which)
         IN  /\ devs_dict' = r.cache
             /\ lastOp' = Op("get_dev", <<>>, which, NoArgs, <<>>, devs, <<>>, <<>>,
                             r.outcome, r.exc,
                             IF r.outcome = "return" THEN "object" ELSE "None",
                             r.ret, r.payload)
    /\ UNCHANGED <<props, props_dict, devs, heap, closeCalls, scope, ctor, pending>>

(***************************************************************************)
(* reset_config_all(): for dev in self.devs: dev.reset_config()           *)
(***************************************************************************)
ResetEvent(h, out) == [ev |-> IF out = "ok" THEN "reset" ELSE "reset_raised", h |-> h]

reset_config_all(ds, outs) ==
    [outcome |-> IF AllOk(outs) THEN "return" ELSE "raise",
     exc |-> IF AllOk(outs) THEN "" ELSE "HandleResetError",
     events |-> [i \in 1..CallsUntilRaise(outs) |-> ResetEvent(ds[i], outs[i])]]

ResetConfigAll ==
    /\ Returned
    /\ \E outs \in [1..Len(devs) -> CallOutcomes] :
         LET r == reset_config_all(devs, outs)
         IN  lastOp' = Op("reset_config_all", <<>>, NoWhich, NoArgs, outs, devs,
                          r.events, <<>>, r.outcome, r.exc, "None", <<>>, <<>>)
    /\ UNCHANGED <<props, props_dict, devs, devs_dict, heap, closeCalls, scope,
                   ctor, pending>>

(***************************************************************************)
(* __enter__(): return [self] + list(self.devs); the fixture itself is    *)
(* written 0 in the returned list.  A with statement calls __enter__,     *)
(* runs its block and calls __exit__ when the block ends.                 *)
(***************************************************************************)
enter(ds) == <<0>> \o ds

Enter ==
    /\ Returned
    /\ scope # "in"
    /\ scope' = "in"
    /\ lastOp' = Op("__enter__", <<>>, NoWhich, NoArgs, <<>>, devs, <<>>, <<>>,
                    "return", "", "list", enter(devs), <<>>)
    /\ UNCHANGED <<props, props_dict, devs, devs_dict, heap, closeCalls, ctor, pending>>

Next ==
    \/ InitRead
    \/ Read
    \/ TearDown
    \/ Enter
    \/ Exit
    \/ CmdFirst
    \/ CmdAny
    \/ CmdAll
    \/ GetDev
    \/ ResetConfigAll

Spec == Init /\ [][Next]_vars

(***************************************************************************)
(* Notions used by the properties.                                        *)
(***************************************************************************)
\* the objects on which the calls of an operation were made, in call order
Called(calls) == [i \in 1..Len(calls) |-> calls[i].h]

SomeOk(outs) == \E i \in 1..Len(outs) : outs[i] = "ok"

\* the first position whose call succeeds
FirstOk(outs) ==
    CHOOSE i \in 1..Len(outs) : outs[i] = "ok" /\ \A j \in 1..(i - 1) : outs[j] # "ok"

\* a read that got as far as building the graph and failed there
BuildFailed(o) == o.op = "read" /\ o.outcome = "raise" /\ o.exc # "HandleCloseError"

\* the objects an object was constructed with (its conns, its bcc)
Owned(h) == UNION {{heap[h].attrs[i].val.ids[j] : j \in 1..Len(heap[h].attrs[i].val.ids)} :
                      i \in 1..Len(heap[h].attrs)}

\* objects are constructed after the objects they own
OwnedDeep(h) == Owned(h) \cup UNION {Owned(c) : c \in Owned(h)}

\* a section as a mapping: ConfigObj sections compare as dicts, by their
\* keys and values, whatever the order of the keys
RECURSIVE SectionStructure(_)
SectionStructure(entries) ==
    {[key |-> entries[i].key,
      kind |-> entries[i].val.kind,
      str |-> entries[i].val.str,
      sec |-> SectionStructure(entries[i].val.sec),
      ids |-> entries[i].val.ids] : i \in 1..Len(entries)}

\* name, class and keyword arguments of an object and of what it owns; the
\* keyword arguments of sectype(**section) are a mapping and carry no order
RECURSIVE Structure(_)
Structure(h) ==
    [name |-> heap[h].name,
     type |-> heap[h].type,
     attrs |-> {[key |-> heap[h].attrs[i].key,
                 kind |-> heap[h].attrs[i].val.kind,
                 str |-> heap[h].attrs[i].val.str,
                 sec |-> SectionStructure(heap[h].attrs[i].val.sec),
                 objs |-> [j \in 1..Len(heap[h].attrs[i].val.ids) |->
                             Structure(heap[h].attrs[i].val.ids[j])]] :
                   i \in 1..Len(heap[h].attrs)}]

GraphStructure(ds) == [i \in 1..Len(ds) |-> Structure(ds[i])]

(***************************************************************************)
(* Properties.                                                            *)
(***************************************************************************)

\* C1: cmd_any returns the result of the first device, in the order of devs,
\* whose cmd succeeds; it has called cmd on the devices before it, which all
\* failed, and on no device after it.
CmdAnyReturnsFirstSuccess ==
    (lastOp.op = "cmd_any" /\ SomeOk(lastOp.outs)) =>
        LET i == FirstOk(lastOp.outs)
        IN  /\ lastOp.outcome = "return"
            /\ lastOp.retKind = "result"
            /\ lastOp.ret = <<lastOp.prevDevs[i]>>
            /\ Called(lastOp.cmds) = SubSeq(lastOp.prevDevs, 1, i)

\* C2: cmd_any raises CantHandleException exactly when no device succeeds
\* (also when there is no device), after it has called cmd once on every
\* device in the order of devs; when it returns, it returns the result of a
\* device whose cmd succeeded.
CmdAnyRaisesIffAllFail ==
    lastOp.op = "cmd_any" =>
        /\ (lastOp.outcome = "raise" /\ lastOp.exc = "CantHandleException")
              <=> ~SomeOk(lastOp.outs)
        /\ lastOp.outcome = "raise" => Called(lastOp.cmds) = lastOp.prevDevs
        /\ lastOp.outcome = "return" =>
              /\ lastOp.retKind = "result"
              /\ \E i \in 1..Len(lastOp.outs) :
                    lastOp.outs[i] = "ok" /\ lastOp.ret = <<lastOp.prevDevs[i]>>

\* C3: cmd_all calls cmd once on every device in the order of devs, whatever
\* the outcomes of the calls, and returns a list with one outcome per device.
CmdAllCallsEveryDevice ==
    (lastOp.op = "cmd_all" /\ lastOp.prevDevs # <<>>) =>
        /\ Called(lastOp.cmds) = lastOp.prevDevs
        /\ lastOp.outcome = "return"
        /\ lastOp.retKind = "list"
        /\ Len(lastOp.ret) = Len(lastOp.prevDevs)

\* C4: tear_down calls close_all once on every device in the order of devs and
\* leaves devs empty (so that a further tear_down calls nothing), and no object
\* ever receives close_all more than once.
TearDownClosesExactlyOnce ==
    /\ lastOp.op = "tear_down" =>
          /\ Called(lastOp.events) = lastOp.prevDevs
          /\ devs = <<>>
    /\ \A h \in 1..Len(heap) : closeCalls[h] <= 1

\* C5: a read whose build fails leaves devs empty, raises, and leaves in props
\* the merge of the source into the props the read started with.
FailedBuildKeepsMerge ==
    [][BuildFailed(lastOp') => (devs' = <<>> /\ props' = Merge(props, lastOp'.src))]_vars

\* C6: a get_dev by name that returns, returns a device of the current devs.
GetDevReturnsCurrentDevice ==
    (lastOp.op = "get_dev" /\ lastOp.which.kind = "name" /\ lastOp.outcome = "return") =>
        \E i \in 1..Len(devs) : devs[i] = lastOp.ret[1]

\* C7: a read that adds nothing to the props from which the current graph was
\* built, builds a graph equal in structure to the graph it replaces.
RebuildIsStructurallyEqual ==
    (/\ lastOp.op = "read" /\ lastOp.src = SrcEmpty
     /\ lastOp.prevDevs # <<>> /\ lastOp.exc # "HandleCloseError") =>
        /\ lastOp.outcome = "return"
        /\ GraphStructure(devs) = GraphStructure(lastOp.prevDevs)

\* C8: props changes only by the merge of a read: every step leaves props as
\* it was, or is a read that leaves the merge of its source into props.
PropsChangedOnlyByMerge ==
    [][\/ props' = props
       \/ lastOp'.op = "read" /\ props' = Merge(props, lastOp'.src)]_vars

\* C9: after a tear_down, every object that was ever constructed has received
\* close_all or is owned by an object that has received close_all.
EveryObjectTornDown ==
    (lastOp.op = "tear_down" /\ lastOp.outcome = "return") =>
        \A h \in 1..Len(heap) :
            \/ closeCalls[h] > 0
            \/ \E d \in 1..Len(heap) : closeCalls[d] > 0 /\ h \in OwnedDeep(d)

\* C10: a tear_down in which a close_all raises still calls close_all on every
\* device of devs, empties devs, and reports the failure only afterwards.
TearDownIsBestEffort ==
    (lastOp.op = "tear_down" /\ ~AllOk(lastOp.outs)) =>
        /\ Called(lastOp.events) = lastOp.prevDevs
        /\ devs = <<>>
        /\ lastOp.outcome = "raise"

\* C11: __enter__ yields the fixture followed by the devices in the order of
\* devs; __exit__, whether the block ended normally or by an exception, runs
\* tear_down once (no device is closed twice by it) and leaves devs empty.
ScopeYieldsDevicesAndTearsDown ==
    /\ lastOp.op = "__enter__" =>
          /\ lastOp.outcome = "return"
          /\ lastOp.ret = <<0>> \o devs
    /\ lastOp.op = "__exit__" =>
          /\ \A i, j \in 1..Len(lastOp.events) :
                lastOp.events[i].h = lastOp.events[j].h => i = j
          /\ Called(lastOp.events) = lastOp.prevDevs
          /\ devs = <<>>

\* C12: a section with a "bctrl" sub-section is constructed with the object
\* parsed from "bctrl" under the key "bcc" and without a key "bctrl"; the
\* deprecation notice is emitted once if the section also has "bcc", not at
\* all if it has not.  Checked for every top-level section a read can meet.
Notices(events) == Cardinality({i \in 1..Len(events) : events[i].ev = "deprecated"})

BackupRule(name, section, hp) ==
    LET r == ParseSection(name, section, hp)
        attrs == r.heap[r.h].attrs
        b == Get(attrs, "bcc").ids[1]
    IN  (r.ok /\ Has(section.sec, "bctrl")) =>
            /\ ~Has(attrs, "bctrl")
            /\ Has(attrs, "bcc")
            /\ Get(attrs, "bcc").kind = "obj"
            /\ b > Len(hp)
            /\ r.heap[b].name = "bctrl"
            /\ r.heap[b].type = Get(Get(section.sec, "bctrl").sec, "type").str
            /\ Notices(r.events) = IF Has(section.sec, "bcc") THEN 1 ELSE 0

BctrlTakesPrecedence ==
    \A src \in Sources :
        LET merged == Merge(props, src)
        IN  \A i \in 1..Len(merged) :
                merged[i].val.kind = "section" =>
                    BackupRule(merged[i].key, merged[i].val, heap)

\* a read built a device from a section with both "bcc" and "bctrl": its bcc
\* is the object named bctrl and one notice was emitted
BctrlTakesPrecedenceWitness ==
    /\ lastOp.op = "read"
    /\ lastOp.outcome = "return"
    /\ lastOp.src = SrcBackup
    /\ Notices(lastOp.events) = 1
    /\ \E i \in 1..Len(devs) :
          /\ Has(heap[devs[i]].attrs, "bcc")
          /\ heap[Get(heap[devs[i]].attrs, "bcc").ids[1]].name = "bctrl"

\* C13: get_dev with a name that no device of devs carries raises
\* WrongNameException with the names of the devices of devs, in their order,
\* and leaves _devs_dict as it was.
UnknownNameRaises ==
    [][(/\ lastOp'.op = "get_dev"
        /\ lastOp'.which.kind = "name"
        /\ \A i \in 1..Len(devs) : heap[devs[i]].name # lastOp'.which.name) =>
            /\ lastOp'.outcome = "raise"
            /\ lastOp'.exc = "WrongNameException"
            /\ lastOp'.payload = [i \in 1..Len(devs) |-> heap[devs[i]].name]
            /\ devs_dict' = devs_dict]_vars

\* C14: cmd_first calls cmd on the first device of devs and on no other, and
\* returns what that call returns; without devices it raises
\* NoDeviceException and calls nothing.
CmdFirstCallsFirstOnly ==
    lastOp.op = "cmd_first" =>
        IF lastOp.prevDevs = <<>>
        THEN /\ lastOp.outcome = "raise"
             /\ lastOp.exc = "NoDeviceException"
             /\ lastOp.cmds = <<>>
        ELSE /\ Called(lastOp.cmds) = <<lastOp.prevDevs[1]>>
             /\ lastOp.outs[1] = "ok" =>
                   /\ lastOp.outcome = "return"
                   /\ lastOp.retKind = "result"
                   /\ lastOp.ret = <<lastOp.prevDevs[1]>>

\* cmd_first returned on a fixture with two devices
CmdFirstCallsFirstOnlyWitness ==
    /\ lastOp.op = "cmd_first"
    /\ Len(lastOp.prevDevs) = 2
    /\ lastOp.outcome = "return"
    /\ lastOp.ret = <<devs[1]>>

\* C15: reset_config_all calls reset_config once on every device in the order
\* of devs, also when one of the calls raises; without devices it returns.
ResetAllCallsEveryDevice ==
    lastOp.op = "reset_config_all" =>
        /\ Called(lastOp.events) = lastOp.prevDevs
        /\ lastOp.prevDevs = <<>> => lastOp.outcome = "return"

\* C18: every call of cmd made by cmd_first, cmd_any or cmd_all passes the
\* msg, expect, timeout and login_timeout its caller gave.
CommandsForwardArguments ==
    lastOp.op \in {"cmd_first", "cmd_any", "cmd_all"} =>
        \A i \in 1..Len(lastOp.cmds) :
            /\ lastOp.cmds[i].msg = <<lastOp.args.msg>>
            /\ lastOp.cmds[i].expect = <<lastOp.args.expect>>
            /\ lastOp.cmds[i].timeout = <<lastOp.args.timeout>>
            /\ lastOp.cmds[i].login_timeout = <<lastOp.args.login_timeout>>

\* C19: cmd_first raises NoDeviceException exactly when devs is empty; a
\* failure of the first device's cmd reaches the caller as that failure.
NoDeviceOnlyWhenEmpty ==
    lastOp.op = "cmd_first" =>
        /\ lastOp.exc = "NoDeviceException" <=> lastOp.prevDevs = <<>>
        /\ (lastOp.prevDevs # <<>> /\ lastOp.outs[1] # "ok") =>
              /\ lastOp.outcome = "raise"
              /\ lastOp.exc = IF lastOp.outs[1] = "IndexError"
                              THEN "IndexError" ELSE "HandleCmdError"

\* C20: no object that received close_all is in devs, is returned by get_dev,
\* or is called by cmd_first, cmd_any, cmd_all or reset_config_all.
ClosedObjectsUnreachable ==
    /\ \A i \in 1..Len(devs) : closeCalls[devs[i]] = 0
    /\ (lastOp.op = "get_dev" /\ lastOp.outcome = "return") =>
          closeCalls[lastOp.ret[1]] = 0
    /\ \A i \in 1..Len(lastOp.cmds) : closeCalls[lastOp.cmds[i].h] = 0
    /\ lastOp.op = "reset_config_all" =>
          \A i \in 1..Len(lastOp.events) : closeCalls[lastOp.events[i].h] = 0

\* C16 as claimed: once the with statement on the fixture has been left, no
\* read brings the fixture back to a non-empty devs.
NoRebuildAfterExit ==
    ~(scope = "left" /\ lastOp.op = "read" /\ lastOp.outcome = "return" /\ devs # <<>>)

\* C16, amended: leaving the with statement is no terminal state.  An
\* __exit__ that returns leaves devs empty, and a read after it that returns
\* leaves in devs a non-empty list of objects constructed by that read, none
\* of them closed.
Constructed(events) == {events[i].h : i \in {j \in 1..Len(events) : events[j].ev = "new"}}

RebuildAfterExit ==
    /\ (lastOp.op = "__exit__" /\ lastOp.outcome = "return") => devs = <<>>
    /\ (scope = "left" /\ lastOp.op = "read" /\ lastOp.outcome = "return") =>
          /\ devs # <<>>
          /\ \A i \in 1..Len(devs) :
                devs[i] \in Constructed(lastOp.events) /\ closeCalls[devs[i]] = 0

\* a read after the with statement was left built a graph
RebuildAfterExitWitness ==
    /\ scope = "left"
    /\ lastOp.op = "read"
    /\ lastOp.outcome = "return"
    /\ Len(devs) = 2

\* the teardown, merge, build order of a read step and the replacement of
\* devs as a whole: a read that gets as far as merging or constructing has,
\* before that, called close_all on every device of the devs it started with,
\* in their order; the step leaves devs as it was, empty, or made only of
\* objects the read constructed, and every object that leaves devs has
\* received close_all
ReadOrder ==
    /\ \/ devs' = devs
       \/ devs' = <<>>
       \/ /\ lastOp'.op = "read"
          /\ \A i \in 1..Len(devs') : devs'[i] > Len(heap)
    /\ \A i \in 1..Len(devs) :
          (\A j \in 1..Len(devs') : devs'[j] # devs[i]) => closeCalls'[devs[i]] >= 1
    /\ (lastOp'.op = "read" /\ (props' # props \/ heap' # heap)) =>
          LET n == Len(devs)
              ev == lastOp'.events
          IN  /\ Len(ev) > n
              /\ \A i \in 1..n :
                    /\ ev[i] = [ev |-> "close", h |-> devs[i]]
                    /\ closeCalls'[devs[i]] = closeCalls[devs[i]] + 1
              /\ ev[n + 1].ev = "merge"
              /\ \A i \in (n + 2)..Len(ev) : ev[i].ev \in {"new", "deprecated"}

\* objects of two generations are not open together: when a read constructs
\* an object, every object constructed before that read has received
\* close_all or is owned by an object that has
OlderObjectsClosed ==
    (lastOp'.op = "read" /\ heap' # heap) =>
        \A h \in 1..Len(heap) :
            \/ closeCalls'[h] > 0
            \/ \E d \in 1..Len(heap) : closeCalls'[d] > 0 /\ h \in OwnedDeep(d)

\* C17: in every read, of the user or of the constructor, the steps are
\* teardown, merge, build: close_all has been called on every device of the
\* previous devs before the merge and before any construction, devs is
\* replaced as a whole, and objects of two generations are never open at the
\* same time.
ReadReplacesGraphAsWhole ==
    [][ReadOrder /\ OlderObjectsClosed]_vars

\* the order of teardown, merge and build alone
ReadKeepsOrder == [][ReadOrder]_vars

====
